---------------------------- MODULE Spec2Model ----------------------------
(***************************************************************************)
(* mac-agent: an AI backend turns a user request into a plan of shell      *)
(* commands; the agent runs each command behind an allow-list and a        *)
(* per-command deadline and returns the collected results.                 *)
(*                                                                         *)
(* Sources: main.go (src/unnamed/part_001), free_ai_integration.go         *)
(* (src/unnamed/part_000), main_test.go (src/unnamed/part_002).            *)
(*                                                                         *)
(* Strings built with fmt.Sprintf / fmt.Errorf are sequences of string     *)
(* pieces whose concatenation is the Go string; the empty sequence is "".  *)
(* A float64 is carried in hundredths (0.95 is 95), a JSON number too.     *)
(* CommandRequest.Timeout and the time.Duration made of it keep their 64   *)
(* bits, as eight bytes.                                                   *)
(* Wall-clock readings are whole seconds; CommandResponse.Timestamp, a     *)
(* reading of the host clock, is left out.                                 *)
(***************************************************************************)
EXTENDS Integers, Sequences, FiniteSets, TLC

(***************************************************************************)
(* Bounds of the model.                                                    *)
(***************************************************************************)
\* exit statuses a child may report: 0..MaxExitCode
MaxExitCode == 2
\* a child that exits by itself does so after 0..MaxRunSeconds seconds
MaxRunSeconds == 2
\* CommandRequest.Timeout of a direct ExecuteCommand call: -1..MaxTimeout
MaxTimeout == 2

(***************************************************************************)
(* State.                                                                  *)
(***************************************************************************)
VARIABLES
    agent,        \* the *Agent: its allowedCommands map, as the set of its keys
    serviceType,  \* FreeAIAgent.serviceType
    goos,         \* runtime.GOOS
    pc,           \* where the call in progress stands
    caller,       \* "handle": ProcessUserRequest; "direct": ExecuteCommand called alone
    reply,        \* <<r>>: the HTTP exchange of this request; <<>>: none yet
    rawText,      \* <<t>>: the generated text the backend call extracted
    response,     \* the *FreeAIResponse of this request
    err,          \* the error ProcessUserRequest returns (NilErr: nil)
    i,            \* position of the range loop over response.Commands
    cur,          \* req of the ExecuteCommand call in progress
    child,        \* the process cmd.CombinedOutput is waiting for
    procs,        \* the number of processes ExecuteCommand started that are alive
    execLog,      \* history: the ExecuteCommand calls of this call, in order
    direct,       \* <<res>>: what a direct ExecuteCommand call returned
    probe,        \* history: the processes the GetSystemInfo call in progress started
    info,         \* <<m>>: the map GetSystemInfo is filling or has returned
    probing,      \* the process cmd.Output() of GetSystemInfo is waiting for
    earlier,      \* history: <<what an earlier request of the session was and did>>
    peer          \* the locals of a second call on the same agent, whose steps
                  \* interleave with those of the call in view

vars == <<agent, serviceType, goos, pc, caller, reply, rawText, response, err, i, cur, child,
          execLog, direct, probe, info, probing, earlier, procs, peer>>

(***************************************************************************)
(* int and time.Duration are 64 bits wide on every darwin target.  A value *)
(* is its eight bytes in two's complement, the least significant first,    *)
(* and arithmetic wraps as Go's does.                                      *)
(***************************************************************************)
RECURSIVE Bytes(_, _)
\* the k low bytes of the integer n
Bytes(n, k) == IF k = 0 THEN <<>> ELSE <<n % 256>> \o Bytes(n \div 256, k - 1)

\* int64(n), time.Duration(n)
Int64(n) == Bytes(n, 8)

RECURSIVE Conv(_, _, _, _)
\* the partial products of weight 256^(k-1): a[1]*b[k] + ... + a[n]*b[k+1-n]
Conv(a, b, k, n) == IF n = 0 THEN 0 ELSE a[n] * b[k + 1 - n] + Conv(a, b, k, n - 1)

\* the one element of a set of one element
Only(S) == CHOOSE x \in S : TRUE

RECURSIVE MulFrom(_, _, _, _)
\* the bytes k..8 of the product (t is the one value of the column sum,
\* computed once)
MulFrom(a, b, k, carry) ==
    IF k > 8
    THEN <<>>
    ELSE Only({ <<t % 256>> \o MulFrom(a, b, k + 1, t \div 256)
                  : t \in { Conv(a, b, k, k) + carry } })

\* a * b of two int64: the low 64 bits of the product
Mul64(a, b) == Only({ MulFrom(x, y, 1, 0) : x \in { a }, y \in { b } })

RECURSIVE MulAdd(_, _, _, _)
\* a * m + carry for small m and carry, from byte k on: the low 64 bits
MulAdd(a, m, k, carry) ==
    IF k > 8
    THEN <<>>
    ELSE Only({ <<t % 256>> \o MulAdd(a, m, k + 1, t \div 256)
                  : t \in { a[k] * m + carry } })

\* a < 0 and a > 0 of an int64
Negative(a) == a[8] >= 128
Positive(a) == ~Negative(a) /\ a # Int64(0)

\* a holds a value of 32 bits, and that value
Fits32(a) ==
    \/ a[4] < 128 /\ \A k \in 5..8 : a[k] = 0
    \/ a[4] >= 128 /\ \A k \in 5..8 : a[k] = 255
IntOf(a) ==
    a[1] + 256 * a[2] + 65536 * a[3]
      + 16777216 * (IF a[4] < 128 THEN a[4] ELSE a[4] - 256)

RECURSIVE RemFrom(_, _, _, _)
\* the remainder of the long division of the unsigned a[1..k] by m
RemFrom(a, m, k, r) ==
    IF k = 0 THEN r ELSE RemFrom(a, m, k - 1, (r * 256 + a[k]) % m)

RECURSIVE DivFrom(_, _, _, _)
\* long division of the unsigned a[1..k] by m, r carried from the bytes above
\* (t is the one value r * 256 + a[k], computed once)
DivFrom(a, m, k, r) ==
    IF k = 0
    THEN <<>>
    ELSE Only({ DivFrom(a, m, k - 1, t % m) \o <<t \div m>> : t \in { r * 256 + a[k] } })

\* a / m of an int64 a >= 0 and a small m > 0
Div64(a, m) == Only({ DivFrom(x, m, 8, 0) : x \in { a } })

\* a % m of an int64 a >= 0 and a small m > 0
Rem64(a, m) == Only({ RemFrom(x, m, 8, 0) : x \in { a } })

\* const Second = 1000 * Millisecond, in nanoseconds
Second == Int64(1000000000)

RECURSIVE LessFrom(_, _, _)
\* a[1..k] < b[1..k] as unsigned numbers
LessFrom(a, b, k) ==
    IF k = 0
    THEN FALSE
    ELSE IF a[k] # b[k] THEN a[k] < b[k] ELSE LessFrom(a, b, k - 1)

\* a < b of two int64
Less64(a, b) ==
    IF Negative(a) # Negative(b) THEN Negative(a) ELSE LessFrom(a, b, 8)

\* the whole seconds of a duration d >= 0, an int64: d / 10^9, and 10^9 is
\* 512 * 1953125
Seconds(d) == Div64(Div64(d, 512), 1953125)

(***************************************************************************)
(* main.go: the allow-list.                                                *)
(***************************************************************************)
\* timeout := 30 * time.Second
DefaultTimeout == 30

\* NewAgent: the keys of the map literal allowedCommands (every value is true)
allowedCommands ==
    { "ls", "pwd", "whoami", "date", "uptime",
      "ps", "top", "df", "du", "find",
      "grep", "cat", "head", "tail", "wc",
      "sort", "uniq", "echo", "mkdir", "rmdir",
      "cp", "mv", "rm", "chmod", "chown",
      "file", "stat", "which", "whereis",
      "system_profiler", "sw_vers", "defaults",
      "launchctl", "netstat", "lsof", "ifconfig",
      "ping", "nslookup", "dig", "curl", "wget" }

\* Names a caller or a plan may ask for that allowedCommands does not hold.
OtherNames == { "sudo", "dd", "format", "rm -rf /", "sleep", "uname", "LS", "" }

CommandNames == allowedCommands \cup OtherNames

\* func NewAgent() *Agent { return &Agent{allowedCommands: map[string]bool{...}} }
NewAgent == [allowedCommands |-> allowedCommands]

\* reading a key the map does not hold adds the key
Lookup_Inserts(a, command) ==
    [a EXCEPT !.allowedCommands = @ \cup {command}]

Lookup_Consumes(a, command) ==
    [a EXCEPT !.allowedCommands = @ \ {command}]

\* the agent after the read a.allowedCommands[command]: a Go map is not
\* changed by indexing it
Lookup(a, command) == a

(***************************************************************************)
(* encoding/json: a JSON text is either rejected by the scanner or read    *)
(* as a value.  Values are tagged records.                                 *)
(***************************************************************************)
JInvalid == [t |-> "invalid"]
JNull == [t |-> "null"]
JBool(b) == [t |-> "bool", b |-> b]
JStr(s) == [t |-> "str", s |-> s]
\* a number literal, in hundredths: 30 is JNum(3000), 0.95 is JNum(95)
JNum(h) == [t |-> "num", h |-> h]
\* an integer literal too long for hundredths, by its decimal digits
JBig(d) == [t |-> "big", d |-> d]
JArr(a) == [t |-> "arr", a |-> a]
\* f is a function from the keys present to their values
JObj(f) == [t |-> "obj", f |-> f]
NoFields == [k \in {} |-> JNull]

(***************************************************************************)
(* The texts a backend may generate.  JsonOf gives what encoding/json's    *)
(* scanner makes of each: JInvalid for a syntax error, else the value.     *)
(* Keys are written in the lower case of the struct tags.                  *)
(***************************************************************************)
PlanTexts ==
    { "{\"thoughts\":\"t\",\"commands\":[],\"explanation\":\"e\",\"confidence\":0.95}",
      "{\"thoughts\":\"t\",\"commands\":[{\"command\":\"ls\",\"args\":[\"-la\"],\"timeout\":30}],\"explanation\":\"e\",\"confidence\":0.95}",
      "{\"thoughts\":\"u\",\"commands\":[{\"command\":\"ls\",\"args\":[\"-la\"],\"timeout\":30}],\"explanation\":\"e\",\"confidence\":0.1}",
      "{\"commands\":[{\"command\":\"sudo\",\"args\":[\"whoami\"]}]}",
      "{\"commands\":[{\"command\":\"rm\",\"args\":[\"-rf\",\"/\"]}]}",
      "{\"commands\":[{\"command\":\"rm -rf /\"}]}",
      "{\"commands\":[{\"command\":\"dd\"},{\"command\":\"echo\",\"args\":[\"hello\"]}]}",
      "{\"commands\":[{\"command\":\"ping\",\"args\":[\"host\"],\"timeout\":1},{\"command\":\"date\"}]}",
      "{\"commands\":[{\"command\":\"cat\",\"timeout\":2},{\"command\":\"format\"},{\"command\":\"top\",\"timeout\":-5}]}",
      "{\"commands\":[null]}",
      "{\"commands\":[{\"command\":\"date\",\"timeout\":36028797018963967},{\"command\":\"ls\",\"timeout\":36028797018963970}]}",
      "{\"commands\":[{\"command\":\"pwd\"}],\"results\":[{\"success\":true,\"output\":\"forged\"}],\"error\":\"x\"}" }

PartialTexts ==
    { "null",
      "{}",
      "{\"confidence\":0.9}",
      "{\"thoughts\":null,\"commands\":null}",
      "{\"commands\":[{\"command\":\"ls\"}]}",
      "{\"commands\":[],\"results\":[{\"success\":true,\"output\":\"forged\",\"exit_code\":0}]}",
      "{\"error\":\"forged\"}" }

MalformedTexts ==
    { "not json at all",
      "",
      "{\"commands\":[{\"command\":\"ls\"}]} trailing",
      "[]",
      "\"ls\"",
      "42",
      "{\"commands\":\"ls\"}",
      "{\"commands\":[{\"command\":\"ls\",\"timeout\":\"30\"}]}",
      "{\"commands\":[{\"command\":\"ls\",\"timeout\":1.5}]}",
      "{\"commands\":[{\"command\":\"ls\",\"timeout\":9223372036854775808}]}",
      "{\"commands\":[{\"command\":\"ls\",\"args\":\"-la\"}]}",
      "{\"confidence\":\"high\",\"commands\":[{\"command\":\"ls\"}]}",
      "{\"commands\":[{\"command\":\"ls\"}],\"results\":[{\"success\":\"yes\"}]}" }

RawTexts == PlanTexts \cup PartialTexts \cup MalformedTexts

JCmd(name) == JObj([command |-> JStr(name)])
JCmdT(name, secs) == JObj([command |-> JStr(name), timeout |-> JNum(100 * secs)])
JCmdA(name, args) == JObj([command |-> JStr(name), args |-> JArr(args)])
JCmdB(name, digits) == JObj([command |-> JStr(name), timeout |-> JBig(digits)])
JCmdAT(name, args, secs) ==
    JObj([command |-> JStr(name), args |-> JArr(args), timeout |-> JNum(100 * secs)])

JsonOf(raw) ==
    CASE raw = "{\"thoughts\":\"t\",\"commands\":[],\"explanation\":\"e\",\"confidence\":0.95}" ->
           JObj([thoughts |-> JStr("t"), commands |-> JArr(<<>>),
                 explanation |-> JStr("e"), confidence |-> JNum(95)])
      [] raw = "{\"thoughts\":\"t\",\"commands\":[{\"command\":\"ls\",\"args\":[\"-la\"],\"timeout\":30}],\"explanation\":\"e\",\"confidence\":0.95}" ->
           JObj([thoughts |-> JStr("t"),
                 commands |-> JArr(<<JCmdAT("ls", <<JStr("-la")>>, 30)>>),
                 explanation |-> JStr("e"), confidence |-> JNum(95)])
      [] raw = "{\"thoughts\":\"u\",\"commands\":[{\"command\":\"ls\",\"args\":[\"-la\"],\"timeout\":30}],\"explanation\":\"e\",\"confidence\":0.1}" ->
           JObj([thoughts |-> JStr("u"),
                 commands |-> JArr(<<JCmdAT("ls", <<JStr("-la")>>, 30)>>),
                 explanation |-> JStr("e"), confidence |-> JNum(10)])
      [] raw = "{\"commands\":[{\"command\":\"sudo\",\"args\":[\"whoami\"]}]}" ->
           JObj([commands |-> JArr(<<JCmdA("sudo", <<JStr("whoami")>>)>>)])
      [] raw = "{\"commands\":[{\"command\":\"rm\",\"args\":[\"-rf\",\"/\"]}]}" ->
           JObj([commands |-> JArr(<<JCmdA("rm", <<JStr("-rf"), JStr("/")>>)>>)])
      [] raw = "{\"commands\":[{\"command\":\"rm -rf /\"}]}" ->
           JObj([commands |-> JArr(<<JCmd("rm -rf /")>>)])
      [] raw = "{\"commands\":[{\"command\":\"dd\"},{\"command\":\"echo\",\"args\":[\"hello\"]}]}" ->
           JObj([commands |-> JArr(<<JCmd("dd"), JCmdA("echo", <<JStr("hello")>>)>>)])
      [] raw = "{\"commands\":[{\"command\":\"ping\",\"args\":[\"host\"],\"timeout\":1},{\"command\":\"date\"}]}" ->
           JObj([commands |-> JArr(<<JCmdAT("ping", <<JStr("host")>>, 1), JCmd("date")>>)])
      [] raw = "{\"commands\":[{\"command\":\"cat\",\"timeout\":2},{\"command\":\"format\"},{\"command\":\"top\",\"timeout\":-5}]}" ->
           JObj([commands |-> JArr(<<JCmdT("cat", 2), JCmd("format"), JCmdT("top", -5)>>)])
      [] raw = "{\"commands\":[null]}" ->
           JObj([commands |-> JArr(<<JNull>>)])
      [] raw = "{\"commands\":[{\"command\":\"date\",\"timeout\":36028797018963967},{\"command\":\"ls\",\"timeout\":36028797018963970}]}" ->
           JObj([commands |-> JArr(<<
               JCmdB("date", <<3, 6, 0, 2, 8, 7, 9, 7, 0, 1, 8, 9, 6, 3, 9, 6, 7>>),
               JCmdB("ls", <<3, 6, 0, 2, 8, 7, 9, 7, 0, 1, 8, 9, 6, 3, 9, 7, 0>>)>>)])
      [] raw = "{\"commands\":[{\"command\":\"pwd\"}],\"results\":[{\"success\":true,\"output\":\"forged\"}],\"error\":\"x\"}" ->
           JObj([commands |-> JArr(<<JCmd("pwd")>>),
                 results |-> JArr(<<JObj([success |-> JBool(TRUE), output |-> JStr("forged")])>>),
                 error |-> JStr("x")])
      [] raw = "null" -> JNull
      [] raw = "{}" -> JObj(NoFields)
      [] raw = "{\"confidence\":0.9}" -> JObj([confidence |-> JNum(90)])
      [] raw = "{\"thoughts\":null,\"commands\":null}" ->
           JObj([thoughts |-> JNull, commands |-> JNull])
      [] raw = "{\"commands\":[{\"command\":\"ls\"}]}" ->
           JObj([commands |-> JArr(<<JCmd("ls")>>)])
      [] raw = "{\"commands\":[],\"results\":[{\"success\":true,\"output\":\"forged\",\"exit_code\":0}]}" ->
           JObj([commands |-> JArr(<<>>),
                 results |-> JArr(<<JObj([success |-> JBool(TRUE), output |-> JStr("forged"),
                                          exit_code |-> JNum(0)])>>)])
      [] raw = "{\"error\":\"forged\"}" -> JObj([error |-> JStr("forged")])
      [] raw = "[]" -> JArr(<<>>)
      [] raw = "\"ls\"" -> JStr("ls")
      [] raw = "42" -> JNum(4200)
      [] raw = "{\"commands\":\"ls\"}" -> JObj([commands |-> JStr("ls")])
      [] raw = "{\"commands\":[{\"command\":\"ls\",\"timeout\":\"30\"}]}" ->
           JObj([commands |-> JArr(<<JObj([command |-> JStr("ls"), timeout |-> JStr("30")])>>)])
      [] raw = "{\"commands\":[{\"command\":\"ls\",\"timeout\":1.5}]}" ->
           JObj([commands |-> JArr(<<JObj([command |-> JStr("ls"), timeout |-> JNum(150)])>>)])
      [] raw = "{\"commands\":[{\"command\":\"ls\",\"timeout\":9223372036854775808}]}" ->
           JObj([commands |-> JArr(<<
               JCmdB("ls", <<9, 2, 2, 3, 3, 7, 2, 0, 3, 6, 8, 5, 4, 7, 7, 5, 8, 0, 8>>)>>)])
      [] raw = "{\"commands\":[{\"command\":\"ls\",\"args\":\"-la\"}]}" ->
           JObj([commands |-> JArr(<<JObj([command |-> JStr("ls"), args |-> JStr("-la")])>>)])
      [] raw = "{\"confidence\":\"high\",\"commands\":[{\"command\":\"ls\"}]}" ->
           JObj([confidence |-> JStr("high"), commands |-> JArr(<<JCmd("ls")>>)])
      [] raw = "{\"commands\":[{\"command\":\"ls\"}],\"results\":[{\"success\":\"yes\"}]}" ->
           JObj([commands |-> JArr(<<JCmd("ls")>>),
                 results |-> JArr(<<JObj([success |-> JStr("yes")])>>)])
      \* "not json at all", "", and a value followed by more text
      [] OTHER -> JInvalid

(***************************************************************************)
(* json.Unmarshal into the structs of the program.  A field that is        *)
(* absent, or null, leaves the Go zero value; a value of the wrong JSON    *)
(* type is an UnmarshalTypeError; an integer field takes only an integer   *)
(* literal.  Unknown keys are skipped.                                     *)
(***************************************************************************)
Field(v, key) == IF key \in DOMAIN v.f THEN v.f[key] ELSE JNull

StringOK(v) == v.t \in {"null", "str"}
StringVal(v) == IF v.t = "str" THEN v.s ELSE ""

\* math.MaxInt64, by its decimal digits
MaxInt64 == <<9, 2, 2, 3, 3, 7, 2, 0, 3, 6, 8, 5, 4, 7, 7, 5, 8, 0, 7>>

RECURSIVE DigitsLE(_, _, _)
\* of two literals of the same length, d[k..] is at most e[k..]
DigitsLE(d, e, k) ==
    k > Len(d) \/ d[k] < e[k] \/ (d[k] = e[k] /\ DigitsLE(d, e, k + 1))

RECURSIVE ParseInt(_, _)
\* strconv.ParseInt of the digits d[1..k]: n *= 10; n += digit
ParseInt(d, k) ==
    IF k = 0 THEN Int64(0) ELSE MulAdd(ParseInt(d, k - 1), 10, 1, d[k])

\* an int field: the literal has no fraction and ParseInt reports no overflow
Int64OK(v) ==
    \/ v.t = "null"
    \/ v.t = "num" /\ v.h % 100 = 0
    \/ v.t = "big" /\ (Len(v.d) < 19 \/ (Len(v.d) = 19 /\ DigitsLE(v.d, MaxInt64, 1)))
Int64Val(v) ==
    CASE v.t = "num" -> Int64(v.h \div 100)
      [] v.t = "big" -> ParseInt(v.d, Len(v.d))
      [] OTHER -> Int64(0)

\* an int field whose values the model keeps as integers of 32 bits
IntOK(v) == Int64OK(v)
IntVal(v) == IntOf(Int64Val(v))

\* a float64 field takes any number literal; those of the texts above are
\* given in hundredths
FloatOK(v) == v.t \in {"null", "num", "big"}
FloatVal(v) == IF v.t = "num" THEN v.h ELSE 0

BoolOK(v) == v.t \in {"null", "bool"}
BoolVal(v) == IF v.t = "bool" THEN v.b ELSE FALSE

StringsOK(v) == v.t = "null" \/ (v.t = "arr" /\ \A k \in DOMAIN v.a : StringOK(v.a[k]))
StringsVal(v) == IF v.t = "arr" THEN [k \in DOMAIN v.a |-> StringVal(v.a[k])] ELSE <<>>

\* a Go string as the pieces of an error message
Msg(s) == IF s = "" THEN <<>> ELSE <<s>>

\* type CommandRequest struct { Command; Args; Timeout }
CommandRequestOK(v) ==
    \/ v.t = "null"
    \/ /\ v.t = "obj"
       /\ StringOK(Field(v, "command"))
       /\ StringsOK(Field(v, "args"))
       /\ Int64OK(Field(v, "timeout"))
CommandRequest(v) ==
    IF v.t = "obj"
    THEN [Command |-> StringVal(Field(v, "command")),
          Args |-> StringsVal(Field(v, "args")),
          Timeout |-> Int64Val(Field(v, "timeout"))]
    ELSE [Command |-> "", Args |-> <<>>, Timeout |-> Int64(0)]

\* type CommandResponse struct { Success; Output; Error; ExitCode; Duration; Timestamp }
CommandResponseOK(v) ==
    \/ v.t = "null"
    \/ /\ v.t = "obj"
       /\ BoolOK(Field(v, "success"))
       /\ StringOK(Field(v, "output"))
       /\ StringOK(Field(v, "error"))
       /\ IntOK(Field(v, "exit_code"))
       /\ StringOK(Field(v, "duration"))
       /\ StringOK(Field(v, "timestamp"))
CommandResponse(v) ==
    IF v.t = "obj"
    THEN [Success |-> BoolVal(Field(v, "success")),
          Output |-> StringVal(Field(v, "output")),
          Error |-> Msg(StringVal(Field(v, "error"))),
          ExitCode |-> IntVal(Field(v, "exit_code")),
          Duration |-> Msg(StringVal(Field(v, "duration")))]
    ELSE [Success |-> FALSE, Output |-> "", Error |-> <<>>, ExitCode |-> 0, Duration |-> <<>>]

CommandsOK(v) ==
    v.t = "null" \/ (v.t = "arr" /\ \A k \in DOMAIN v.a : CommandRequestOK(v.a[k]))
ResultsOK(v) ==
    v.t = "null" \/ (v.t = "arr" /\ \A k \in DOMAIN v.a : CommandResponseOK(v.a[k]))

\* type FreeAIResponse struct { Thoughts; Commands; Explanation; Confidence; Results; Error }
\* err == nil of json.Unmarshal([]byte(text), &aiResponse)
FreeAIResponseOK(v) ==
    \/ v.t = "null"
    \/ /\ v.t = "obj"
       /\ StringOK(Field(v, "thoughts"))
       /\ CommandsOK(Field(v, "commands"))
       /\ StringOK(Field(v, "explanation"))
       /\ FloatOK(Field(v, "confidence"))
       /\ ResultsOK(Field(v, "results"))
       /\ StringOK(Field(v, "error"))

ZeroResponse ==
    [Thoughts |-> "", Commands |-> <<>>, Explanation |-> "", Confidence |-> 0,
     Results |-> <<>>, Error |-> ""]

FreeAIResponse(v) ==
    IF v.t = "obj"
    THEN LET cs == Field(v, "commands")
             rs == Field(v, "results")
         IN  [Thoughts |-> StringVal(Field(v, "thoughts")),
              Commands |-> IF cs.t = "arr"
                           THEN [k \in DOMAIN cs.a |-> CommandRequest(cs.a[k])]
                           ELSE <<>>,
              Explanation |-> StringVal(Field(v, "explanation")),
              Confidence |-> FloatVal(Field(v, "confidence")),
              Results |-> IF rs.t = "arr"
                          THEN [k \in DOMAIN rs.a |-> CommandResponse(rs.a[k])]
                          ELSE <<>>,
              Error |-> StringVal(Field(v, "error"))]
    ELSE ZeroResponse

\* the fallback keeps its own texts only: the raw text is not handed on
Degraded_RawDropped(text) ==
    [Thoughts |-> "Failed to parse AI response as JSON",
     Commands |-> <<>>,
     Explanation |-> "Invalid JSON response from AI",
     Confidence |-> 0,
     Results |-> <<>>,
     Error |-> "Invalid JSON response from AI"]

\* the composite literal of the fallback branch
Degraded(text) ==
    [Thoughts |-> "Failed to parse AI response as JSON",
     Commands |-> <<>>,
     Explanation |-> text,
     Confidence |-> 0,
     Results |-> <<>>,
     Error |-> "Invalid JSON response from AI"]

\* the error of Unmarshal is ignored: what it filled in is the plan
ParseAIResponse_KeepPartial(text) == FreeAIResponse(JsonOf(text))

\* var aiResponse FreeAIResponse; if err := json.Unmarshal(...); err != nil { aiResponse = ... }
ParseAIResponse(text) ==
    IF FreeAIResponseOK(JsonOf(text))
    THEN FreeAIResponse(JsonOf(text))
    ELSE Degraded(text)

(***************************************************************************)
(* The HTTP exchange with a backend.  A reply is what http.Post /          *)
(* client.Do and io.ReadAll give: a transport outcome, a status code and   *)
(* a body (as JSON).  net = "refused": the request fails; "read": the      *)
(* body cannot be read to its end.                                         *)
(***************************************************************************)
ServiceTypes == { "ollama", "huggingface", "local" }
\* NewFreeAIAgent takes any string as serviceType
AnyServiceTypes == ServiceTypes \cup { "openai" }

StatusCodes == { 200, 500 }

Bodies ==
    { JInvalid, JNull, JObj(NoFields),
      JObj([error |-> JStr("model not found")]),
      JObj([response |-> JNum(100)]),
      JArr(<<>>), JArr(<<JObj(NoFields)>>), JArr(<<JNull>>),
      JArr(<<JObj([generated_text |-> JNum(100)])>>) }
    \cup { JObj([response |-> JStr(text)]) : text \in RawTexts }
    \cup { JObj([response |-> JStr(text), error |-> JStr("")]) : text \in { "not json at all" } }
    \cup { JArr(<<JObj([generated_text |-> JStr(text)])>>) : text \in RawTexts }

Replies ==
    { [net |-> "refused", status |-> 0, body |-> JInvalid],
      [net |-> "read", status |-> 200, body |-> JInvalid] }
    \cup [net : { "ok" }, status : StatusCodes, body : Bodies]

NilErr == <<>>
\* what a call* function returns: (nil, err) or (&aiResponse, nil), the
\* latter given by the generated text it parses
Failed(e) == [err |-> e, text |-> <<>>]
Generated(text) == [err |-> NilErr, text |-> <<text>>]

\* var ollamaResp struct { Response string; Error string }
GenerateResponseOK(v) ==
    \/ v.t = "null"
    \/ v.t = "obj" /\ StringOK(Field(v, "response")) /\ StringOK(Field(v, "error"))
GenerateResponse(v) ==
    IF v.t = "obj"
    THEN [Response |-> StringVal(Field(v, "response")), Error |-> StringVal(Field(v, "error"))]
    ELSE [Response |-> "", Error |-> ""]

\* var hfResp []struct { GeneratedText string }
CandidateOK(v) == v.t = "null" \/ (v.t = "obj" /\ StringOK(Field(v, "generated_text")))
CandidatesOK(v) == v.t = "null" \/ (v.t = "arr" /\ \A k \in DOMAIN v.a : CandidateOK(v.a[k]))
Candidates(v) ==
    IF v.t = "arr"
    THEN [k \in DOMAIN v.a |->
            IF v.a[k].t = "obj" THEN StringVal(Field(v.a[k], "generated_text")) ELSE ""]
    ELSE <<>>

callOllama(r) ==
    IF r.net = "refused" THEN Failed(<<"Ollama API error: ", "connection refused">>)
    ELSE IF r.net = "read" THEN Failed(<<"unexpected EOF">>)
    ELSE IF ~GenerateResponseOK(r.body) THEN Failed(<<"json: cannot unmarshal">>)
    ELSE IF GenerateResponse(r.body).Error # ""
         THEN Failed(<<"Ollama error: ", GenerateResponse(r.body).Error>>)
    ELSE Generated(GenerateResponse(r.body).Response)

callHuggingFace(r) ==
    IF r.net = "refused" THEN Failed(<<"Hugging Face API error: ", "connection refused">>)
    ELSE IF r.net = "read" THEN Failed(<<"unexpected EOF">>)
    ELSE IF ~CandidatesOK(r.body) THEN Failed(<<"json: cannot unmarshal">>)
    ELSE IF Len(Candidates(r.body)) = 0 THEN Failed(<<"no response from Hugging Face">>)
    ELSE Generated(Candidates(r.body)[1])

callLocalAPI(r) ==
    IF r.net = "refused" THEN Failed(<<"Local API error: ", "connection refused">>)
    ELSE IF r.net = "read" THEN Failed(<<"unexpected EOF">>)
    ELSE IF ~GenerateResponseOK(r.body) THEN Failed(<<"json: cannot unmarshal">>)
    ELSE IF GenerateResponse(r.body).Error # ""
         THEN Failed(<<"Local API error: ", GenerateResponse(r.body).Error>>)
    ELSE Generated(GenerateResponse(r.body).Response)

\* the Timeout, in seconds, of the http.Client that sends the request:
\* callHuggingFace builds &http.Client{Timeout: 30 * time.Second}; callOllama
\* and callLocalAPI use http.Post, whose http.DefaultClient has none (<<>>)
ClientTimeout(st) == IF st = "huggingface" THEN <<30>> ELSE <<>>

\* client.Do gives up after the Timeout of the client
TimedOut(st) ==
    Failed(<<"Hugging Face API error: ", "Client.Timeout exceeded while awaiting headers">>)

\* switch fa.serviceType
callBackend(st, r) ==
    CASE st = "ollama" -> callOllama(r)
      [] st = "huggingface" -> callHuggingFace(r)
      [] st = "local" -> callLocalAPI(r)

(***************************************************************************)
(* main.go: ExecuteCommand.                                                *)
(***************************************************************************)
\* a deny-list in place of the allow-list
isCommandAllowed_DenyList(command) == command \notin { "sudo", "rm -rf /" }

\* func (a *Agent) isCommandAllowed(command string) bool
isCommandAllowed(command) == command \in agent.allowedCommands

Digit(n) ==
    CASE n = 0 -> "0" [] n = 1 -> "1" [] n = 2 -> "2" [] n = 3 -> "3" [] n = 4 -> "4"
      [] n = 5 -> "5" [] n = 6 -> "6" [] n = 7 -> "7" [] n = 8 -> "8" [] n = 9 -> "9"

RECURSIVE Itoa(_)
\* the decimal text of n
Itoa(n) ==
    IF n < 0
    THEN "-" \o Itoa(-n)
    ELSE IF n < 10 THEN Digit(n) ELSE Itoa(n \div 10) \o Digit(n % 10)

\* the text of h hours, m minutes and sec seconds: "30s", "1m30s", "1h0m0s"
HMS(h, m, sec) ==
    IF h > 0
    THEN <<Itoa(h), "h", Itoa(m), "m", Itoa(sec), "s">>
    ELSE IF m > 0
         THEN <<Itoa(m), "m", Itoa(sec), "s">>
         ELSE <<Itoa(sec), "s">>

\* time.Since(start).String() of an elapsed time of s >= 0 whole seconds, an
\* int64 (one of 32 bits is divided as an integer)
Duration(s) ==
    IF Fits32(s)
    THEN HMS(IntOf(s) \div 3600, (IntOf(s) \div 60) % 60, IntOf(s) % 60)
    ELSE HMS(IntOf(Div64(s, 3600)), IntOf(Div64(s, 60)) % 60, Rem64(s, 60))

\* the rejection reported with the zero exit code and no command name
NotAllowed_Anonymous(req) ==
    [Success |-> FALSE,
     Output |-> "",
     Error |-> <<"Command not allowed">>,
     ExitCode |-> 0,
     Duration |-> Duration(Int64(0))]

\* the CommandResponse of the branch !a.isCommandAllowed(req.Command)
NotAllowed(req) ==
    [Success |-> FALSE,
     Output |-> "",
     Error |-> <<"Command '", req.Command, "' is not allowed for security reasons">>,
     ExitCode |-> -1,
     Duration |-> Duration(Int64(0))]

\* one context for the whole plan: once it has expired, it stays expired
Timeout_SharedScope(req) ==
    IF \E k \in DOMAIN execLog : execLog[k].how = "killed"
    THEN Int64(0)
    ELSE IF Positive(req.Timeout)
         THEN Mul64(req.Timeout, Second)
         ELSE Mul64(Int64(DefaultTimeout), Second)

\* timeout := 30 * time.Second
\* if req.Timeout > 0 { timeout = time.Duration(req.Timeout) * time.Second }
Timeout(req) ==
    IF Positive(req.Timeout)
    THEN Mul64(req.Timeout, Second)
    ELSE Mul64(Int64(DefaultTimeout), Second)

\* err.Error() is not copied into the response
Ran_ErrorDropped(e, output, exitCode, s) ==
    [Success |-> e = NilErr,
     Output |-> output,
     Error |-> NilErr,
     ExitCode |-> exitCode,
     Duration |-> Duration(s)]

\* output, err := cmd.CombinedOutput(); response := CommandResponse{...};
\* if err != nil { response.Error = err.Error() }
\* exitCode is cmd.ProcessState.ExitCode(): -1 when the process never
\* started or was ended by a signal; s is time.Since(start), in whole seconds
Ran(e, output, exitCode, s) ==
    [Success |-> e = NilErr,
     Output |-> output,
     Error |-> e,
     ExitCode |-> exitCode,
     Duration |-> Duration(s)]

\* func (a *Agent) GetSystemInfo(): the processes it starts with exec.Command
GetSystemInfo(os) ==
    IF os = "darwin"
    THEN << [Command |-> "sw_vers", Args |-> <<"-productVersion">>],
            [Command |-> "uname", Args |-> <<"-m">>] >>
    ELSE <<>>

NilResponse == [nil |-> TRUE]
ZeroRequest == [Command |-> "", Args |-> <<>>, Timeout |-> Int64(0)]
NoChild == [alive |-> FALSE]

RECURSIVE Join(_, _)
\* the first k of the words a, with a space between two of them
Join(a, k) ==
    IF k = 0 THEN "" ELSE IF k = 1 THEN a[1] ELSE Join(a, k - 1) \o " " \o a[k]

\* what /bin/echo writes: its arguments and a newline, none after -n
Echo(args) ==
    IF Len(args) > 0 /\ args[1] = "-n"
    THEN Join(Tail(args), Len(args) - 1)
    ELSE Join(args, Len(args)) \o "\n"

\* string(output) of cmd.CombinedOutput(): what the process wrote before it
\* exited; echo writes its arguments, another program nothing or something
Outputs(command, args) ==
    IF command = "echo" THEN { Echo(args) } ELSE { "", "out\n" }
ArgLists == { <<>>, <<"hello">>, <<"-rf", "/">> }
\* a timeout of more than 2^31 seconds: 3000000000
LongTimeout == ParseInt(<<3, 0, 0, 0, 0, 0, 0, 0, 0, 0>>, 10)
\* a timeout whose product with time.Second wraps to 499999744 ns:
\* 25923043426087370
WrappingTimeout == ParseInt(<<2, 5, 9, 2, 3, 0, 4, 3, 4, 2, 6, 0, 8, 7, 3, 7, 0>>, 17)

\* the requests of direct ExecuteCommand calls: every name with a short
\* timeout, echo and ping with the two others
DirectRequests ==
    [Command : CommandNames, Args : ArgLists,
     Timeout : { Int64(n) : n \in -1..MaxTimeout }]
      \cup [Command : { "echo", "ping" }, Args : ArgLists,
            Timeout : { LongTimeout, WrappingTimeout }]

\* the locals of a call that has not begun
IdleCall ==
    [pc |-> "idle", caller |-> "none", reply |-> <<>>, rawText |-> <<>>,
     response |-> NilResponse, err |-> NilErr, i |-> 0, cur |-> ZeroRequest,
     child |-> NoChild, procs |-> 0, execLog |-> <<>>, direct |-> <<>>,
     probe |-> <<>>, info |-> <<>>, probing |-> NoChild]

Init ==
    /\ agent = NewAgent
    /\ serviceType \in AnyServiceTypes
    /\ goos \in { "darwin", "linux" }
    /\ pc = "idle"
    /\ caller = "none"
    /\ reply = <<>>
    /\ rawText = <<>>
    /\ response = NilResponse
    /\ err = NilErr
    /\ i = 0
    /\ cur = ZeroRequest
    /\ child = NoChild
    /\ execLog = <<>>
    /\ direct = <<>>
    /\ probe = <<>>
    /\ info = <<>>
    /\ probing = NoChild
    /\ earlier = <<>>
    /\ peer = IdleCall
    /\ procs = 0

(***************************************************************************)
(* free_ai_integration.go: ProcessUserRequest.                             *)
(***************************************************************************)
\* the default branch returns no error
Unsupported_Nil(st) == NilErr

\* default: return nil, fmt.Errorf("unsupported service type: %s", fa.serviceType)
Unsupported(st) == <<"unsupported service type: ", st>>

\* info := map[string]interface{}{"os": runtime.GOOS, "arch": runtime.GOARCH,
\* "version": runtime.Version()}
BaseInfo(os) ==
    [k \in { "os", "arch", "version" } |->
        IF k = "os" THEN <<os>>
        ELSE IF k = "arch" THEN <<"runtime.GOARCH">> ELSE <<"runtime.Version()">>]

\* info[key] = v
Put(m, key, v) == [k \in DOMAIN m \cup {key} |-> IF k = key THEN v ELSE m[k]]

\* unicode.IsSpace, on code points: \t \n \v \f \r, the space, U+0085,
\* U+00A0, U+1680, U+2000..U+200A, U+2028, U+2029, U+202F, U+205F, U+3000
Space ==
    { 9, 10, 11, 12, 13, 32, 133, 160, 5760 } \cup (8192..8202)
      \cup { 8232, 8233, 8239, 8287, 12288 }

RECURSIVE TrimLeft(_)
TrimLeft(t) == IF t # <<>> /\ Head(t) \in Space THEN TrimLeft(Tail(t)) ELSE t

RECURSIVE TrimRight(_)
TrimRight(t) ==
    IF t # <<>> /\ t[Len(t)] \in Space THEN TrimRight(SubSeq(t, 1, Len(t) - 1)) ELSE t

\* strings.TrimSpace, of a text given as the sequence of its code points
TrimSpace(t) == TrimRight(TrimLeft(t))

\* what the two programs write, as code points: "14.4\n" and "arm64\n"
ProbeOutputs(command) ==
    IF command = "sw_vers"
    THEN { <<49, 52, 46, 52, 10>> }
    ELSE { <<97, 114, 109, 54, 52, 10>> }

\* the key GetSystemInfo stores the output of a program under
InfoKey(command) == IF command = "sw_vers" THEN "macos_version" ELSE "machine"

\* the statement of GetSystemInfo that follows the one at position p
AfterProbe(p) == IF p = "sw_vers" THEN "uname" ELSE "gathered"

\* the exec.Command of the statement at position p
ProbeAt(p) == GetSystemInfo(goos)[IF p = "sw_vers" THEN 1 ELSE 2]

\* GetSystemInfo is entered and builds the map; on darwin it goes on to the
\* two programs
Gather(who) ==
    /\ pc = "idle"
    /\ caller' = who
    /\ info' = <<BaseInfo(goos)>>
    /\ pc' = IF GetSystemInfo(goos) # <<>> THEN "sw_vers" ELSE "gathered"
    /\ UNCHANGED <<peer, procs, earlier, agent, serviceType, goos, reply, rawText, response, err,
                   i, cur, child, execLog, direct, probe, probing>>

\* ProcessUserRequest begins: systemInfo := fa.GetSystemInfo()
ProcessUserRequest == Gather("handle")

\* GetSystemInfo called alone
GetSystemInfoCall == Gather("sysinfo")

\* exec.Command(...).Output() starts the program and waits for it
ProbeStarts ==
    /\ pc \in { "sw_vers", "uname" }
    /\ probing = NoChild
    /\ probing' = [alive |-> TRUE, Command |-> ProbeAt(pc).Command, Args |-> ProbeAt(pc).Args]
    /\ probe' = Append(probe, ProbeAt(pc))
    /\ UNCHANGED <<peer, procs, earlier, agent, serviceType, goos, pc, caller, reply, rawText,
                   response, err, i, cur, child, execLog, direct, info>>

\* Output() cannot start the program: err != nil, the key is not stored
ProbeStartFails ==
    /\ pc \in { "sw_vers", "uname" }
    /\ probing = NoChild
    /\ pc' = AfterProbe(pc)
    /\ UNCHANGED <<peer, procs, earlier, agent, serviceType, goos, caller, reply, rawText,
                   response, err, i, cur, child, execLog, direct, probe, info, probing>>

\* the program exits: if output, err := ...Output(); err == nil
\* { info[key] = strings.TrimSpace(string(output)) }
ProbeExits ==
    /\ pc \in { "sw_vers", "uname" }
    /\ probing # NoChild
    /\ \E code \in 0..1, output \in ProbeOutputs(probing.Command) :
          info' = IF code = 0
                  THEN <<Put(info[1], InfoKey(probing.Command), TrimSpace(output))>>
                  ELSE info
    /\ probing' = NoChild
    /\ pc' = AfterProbe(pc)
    /\ UNCHANGED <<peer, procs, earlier, agent, serviceType, goos, caller, reply, rawText,
                   response, err, i, cur, child, execLog, direct, probe>>

\* ProcessUserRequest after GetSystemInfo, up to the backend call: the map
\* goes into the prompt and is not read again; the switch on fa.serviceType
\* (default: return nil, "unsupported service type")
Switch ==
    /\ pc = "gathered"
    /\ caller = "handle"
    /\ IF serviceType \in ServiceTypes
       THEN pc' = "awaiting" /\ err' = NilErr
       ELSE pc' = "failed" /\ err' = Unsupported(serviceType)
    /\ info' = <<>>
    /\ probe' = <<>>
    /\ UNCHANGED <<peer, procs, earlier, agent, serviceType, goos, caller, reply, rawText,
                   response, i, cur, child, execLog, direct, probing>>

\* a failed backend call is made again
AfterCall_Retry(e) == IF e # NilErr THEN "awaiting" ELSE "parsing"

\* the error of the backend call is not returned
AfterCall_NoReturn(e) == "parsing"

\* if err != nil { return nil, err }
AfterCall(e) == IF e # NilErr THEN "failed" ELSE "parsing"

\* the HTTP exchange ends and the call* function reads the envelope
BackendReturns ==
    \E r \in Replies :
        /\ pc = "awaiting"
        /\ reply' = <<r>>
        /\ err' = callBackend(serviceType, r).err
        /\ rawText' = callBackend(serviceType, r).text
        /\ pc' = AfterCall(callBackend(serviceType, r).err)
        /\ UNCHANGED <<peer, procs, earlier, agent, serviceType, goos, caller, response, i, cur, child, execLog,
                       direct, probe, info, probing>>

\* the backend has taken the request and never answers: the call stays
\* inside http.Post / client.Do
BackendSilent ==
    /\ pc = "awaiting"
    /\ pc' = "blocked"
    /\ UNCHANGED <<peer, procs, earlier, agent, serviceType, goos, caller, reply, rawText, response, err,
                   i, cur, child, execLog, direct, probe, info, probing>>

\* the Timeout of the client passes while the call is blocked: client.Do
\* returns an error, and ProcessUserRequest returns it
ClientTimesOut ==
    /\ pc = "blocked"
    /\ ClientTimeout(serviceType) # <<>>
    /\ err' = TimedOut(serviceType).err
    /\ pc' = AfterCall(TimedOut(serviceType).err)
    /\ UNCHANGED <<peer, procs, earlier, agent, serviceType, goos, caller, reply, rawText, response, i,
                   cur, child, execLog, direct, probe, info, probing>>

\* the results the text carries are kept and appended to
MakeResults_Keep(r) == r

\* if len(response.Commands) > 0 { response.Results = make([]CommandResponse, 0, ...) }
MakeResults(r) == IF Len(r.Commands) > 0 THEN [r EXCEPT !.Results = <<>>] ELSE r

\* the call* function parses the generated text and returns &aiResponse
ParsePlan ==
    /\ pc = "parsing"
    /\ rawText # <<>>
    /\ response' = MakeResults(ParseAIResponse(rawText[1]))
    /\ i' = 1
    /\ pc' = "executing"
    /\ UNCHANGED <<peer, procs, earlier, agent, serviceType, goos, caller, reply, rawText, err, cur, child, execLog,
                   direct, probe, info, probing>>

\* a plan of low confidence is not run
RangeDone_ConfidenceGate(r, k) == k > Len(r.Commands) \/ r.Confidence < 50

\* the loop stops at the first command that did not succeed
RangeDone_BreakOnFailure(r, k) ==
    \/ k > Len(r.Commands)
    \/ k > 1 /\ k - 1 <= Len(r.Results) /\ ~r.Results[k - 1].Success

\* for _, cmd := range response.Commands: the range is exhausted at position k
RangeDone(r, k) == k > Len(r.Commands)

\* result := fa.ExecuteCommand(cmd)
NextCommand ==
    /\ pc = "executing"
    /\ ~RangeDone(response, i)
    /\ cur' = response.Commands[i]
    /\ pc' = "entered"
    /\ UNCHANGED <<peer, procs, earlier, agent, serviceType, goos, caller, reply, rawText, response, err, i, child,
                   execLog, direct, probe, info, probing>>

\* return response, nil
Done ==
    /\ pc = "executing"
    /\ RangeDone(response, i)
    /\ pc' = "done"
    /\ UNCHANGED <<peer, procs, earlier, agent, serviceType, goos, caller, reply, rawText, response, err, i, cur, child,
                   execLog, direct, probe, info, probing>>

(***************************************************************************)
(* main.go: ExecuteCommand, called by the loop or (as the tests do) alone. *)
(***************************************************************************)
DirectCall ==
    \E req \in DirectRequests :
        /\ pc = "idle"
        /\ caller' = "direct"
        /\ cur' = req
        /\ pc' = "entered"
        /\ UNCHANGED <<peer, procs, earlier, agent, serviceType, goos, reply, rawText, response, err, i, child, execLog,
                       direct, probe, info, probing>>

\* ExecuteCommand returns res; the loop appends it: response.Results = append(...)
\* status is what the process reported at its exit: <<code>>, or <<>> when it
\* did not exit by itself
Return(res, how, status) ==
    /\ execLog' = Append(execLog, [req |-> cur, res |-> res, how |-> how,
                                    status |-> status])
    /\ child' = NoChild
    /\ cur' = ZeroRequest
    /\ IF caller = "handle"
       THEN /\ response' = [response EXCEPT !.Results = Append(@, res)]
            /\ i' = i + 1
            /\ pc' = "executing"
            /\ UNCHANGED direct
       ELSE /\ direct' = <<res>>
            /\ pc' = "returned"
            /\ UNCHANGED <<response, i>>
    /\ UNCHANGED <<peer, earlier, serviceType, goos, caller, reply, rawText, err, probe, info, probing>>

\* if !a.isCommandAllowed(req.Command) { return CommandResponse{...} }
Reject ==
    /\ pc = "entered"
    /\ UNCHANGED procs
    /\ agent' = Lookup(agent, cur.Command)
    /\ ~isCommandAllowed(cur.Command)
    /\ Return(NotAllowed(cur), "rejected", <<>>)

\* cmd.CombinedOutput() cannot start the program: no process, ProcessState nil
StartFails ==
    /\ pc = "entered"
    /\ UNCHANGED procs
    /\ agent' = Lookup(agent, cur.Command)
    /\ isCommandAllowed(cur.Command)
    /\ Return(Ran(<<"exec: \"", cur.Command, "\": executable file not found in $PATH">>,
                  "", -1, Int64(0)), "nostart", <<>>)

\* ctx, cancel := context.WithTimeout(context.Background(), timeout): ctx is
\* done when cmd.Start looks at it, and Start returns ctx.Err() in place of
\* starting the program. A timeout that is not positive makes ctx done at
\* once; a positive one of less than a second may pass on the way from
\* WithTimeout to Start, which takes less than a second of the clock
StartExpired ==
    /\ pc = "entered"
    /\ UNCHANGED procs
    /\ agent' = Lookup(agent, cur.Command)
    /\ isCommandAllowed(cur.Command)
    /\ Less64(Timeout(cur), Second)
    /\ Return(Ran(<<"context deadline exceeded">>, "", -1, Int64(0)), "expired", <<>>)

\* ctx, cancel := context.WithTimeout(context.Background(), timeout);
\* exec.CommandContext(ctx, req.Command, req.Args...); the process starts
Start ==
    /\ pc = "entered"
    /\ isCommandAllowed(cur.Command)
    /\ Positive(Timeout(cur))
    /\ agent' = Lookup(agent, cur.Command)
    /\ procs' = procs + 1
    /\ child' = [alive |-> TRUE, Command |-> cur.Command, Args |-> cur.Args,
                 deadline |-> Timeout(cur)]
    /\ pc' = "running"
    /\ UNCHANGED <<peer, earlier, serviceType, goos, caller, reply, rawText, response, err, i, cur,
                   execLog, direct, probe, info, probing>>

\* the deadline ends the wait and leaves the process running
Killed_Abandoned(n) == n

\* the processes alive after ctx is done: exec.CommandContext kills the
\* process, and Wait returns when it is gone
Killed(n) == n - 1

\* the process exits by itself before the deadline
Exits ==
    /\ pc = "running"
    /\ \E secs \in 0..MaxRunSeconds :
          /\ Less64(MulAdd(Second, secs, 1, 0), child.deadline)
          /\ \E code \in 0..MaxExitCode, output \in Outputs(child.Command, child.Args) :
                /\ procs' = procs - 1
                /\ UNCHANGED agent
                /\ Return(Ran(IF code = 0 THEN NilErr ELSE <<"exit status ", Itoa(code)>>,
                              output, code, Int64(secs)), "exited", <<code>>)

\* the context's deadline passes: the process is killed, with all, or with
\* nothing, of its output written
DeadlineExceeded ==
    /\ pc = "running"
    /\ \E output \in Outputs(child.Command, child.Args) \cup { "" } :
        /\ procs' = Killed(procs)
        /\ UNCHANGED agent
        /\ Return(Ran(<<"signal: killed">>, output, -1, Seconds(child.deadline)), "killed", <<>>)

\* the context's deadline passes when the process has exited and is not yet
\* reaped: Process.Kill succeeds on it, and cmd.Wait returns the error of the
\* exit if the status is not 0 and ctx.Err() if it is 0, with the
\* ProcessState of the exit
ExitsAtDeadline ==
    /\ pc = "running"
    /\ \E code \in 0..MaxExitCode, output \in Outputs(child.Command, child.Args) :
        /\ procs' = procs - 1
        /\ UNCHANGED agent
        /\ Return(Ran(IF code = 0
                      THEN <<"context deadline exceeded">>
                      ELSE <<"exit status ", Itoa(code)>>,
                      output, code, Seconds(child.deadline)),
                  IF code = 0 THEN "late" ELSE "exited", <<code>>)

\* the caller has its answer; nothing of the call is kept
Returned ==
    /\ \/ pc \in { "done", "failed", "returned" }
       \/ pc = "gathered" /\ caller = "sysinfo"
    /\ pc' = "idle"
    /\ caller' = "none"
    /\ reply' = <<>>
    /\ rawText' = <<>>
    /\ response' = NilResponse
    /\ err' = NilErr
    /\ i' = 0
    /\ cur' = ZeroRequest
    /\ child' = NoChild
    /\ execLog' = <<>>
    /\ direct' = <<>>
    /\ probe' = <<>>
    /\ info' = <<>>
    /\ probing' = NoChild
    /\ UNCHANGED <<peer, procs, earlier, agent, serviceType, goos>>

\* the calls of a request, each with the answer of the allow-list
Calls(log) ==
    [k \in DOMAIN log |-> [req |-> log[k].req, rejected |-> log[k].how = "rejected"]]

\* InteractiveFreeAIMode: the loop reads the next request of the session; the
\* plan of the one that just ended, and its calls, are kept for comparison
ReturnedKept ==
    /\ pc = "done"
    /\ caller = "handle"
    /\ Len(response.Commands) > 0
    /\ earlier' = << [Thoughts |-> response.Thoughts,
                      Confidence |-> response.Confidence,
                      Commands |-> response.Commands,
                      calls |-> Calls(execLog)] >>
    /\ pc' = "idle"
    /\ caller' = "none"
    /\ reply' = <<>>
    /\ rawText' = <<>>
    /\ response' = NilResponse
    /\ err' = NilErr
    /\ i' = 0
    /\ cur' = ZeroRequest
    /\ child' = NoChild
    /\ execLog' = <<>>
    /\ direct' = <<>>
    /\ probe' = <<>>
    /\ info' = <<>>
    /\ probing' = NoChild
    /\ UNCHANGED <<peer, procs, agent, serviceType, goos>>

Next ==
    \/ ProcessUserRequest
    \/ GetSystemInfoCall
    \/ ProbeStarts
    \/ ProbeStartFails
    \/ ProbeExits
    \/ Switch
    \/ BackendReturns
    \/ BackendSilent
    \/ ClientTimesOut
    \/ ParsePlan
    \/ NextCommand
    \/ Done
    \/ DirectCall
    \/ Reject
    \/ StartFails
    \/ StartExpired
    \/ Start
    \/ Exits
    \/ DeadlineExceeded
    \/ ExitsAtDeadline
    \/ Returned

Spec == Init /\ [][Next]_vars

\* time passes: the timer of an http.Client that has a Timeout fires
SpecFair == Spec /\ WF_vars(ClientTimesOut)

\* a session of several requests, with one earlier request kept in view
NextSession == Next \/ ReturnedKept

SpecSession == Init /\ [][NextSession]_vars

\* the locals of the call in view
View ==
    [pc |-> pc, caller |-> caller, reply |-> reply, rawText |-> rawText,
     response |-> response, err |-> err, i |-> i, cur |-> cur,
     child |-> child, procs |-> procs, execLog |-> execLog, direct |-> direct,
     probe |-> probe, info |-> info, probing |-> probing]

\* two goroutines call ProcessUserRequest on one *FreeAIAgent: the scheduler
\* lets the other one run. Each has its own locals; fa and the embedded
\* *Agent are what the two have in common
Swap ==
    /\ peer' = View
    /\ pc' = peer.pc
    /\ caller' = peer.caller
    /\ reply' = peer.reply
    /\ rawText' = peer.rawText
    /\ response' = peer.response
    /\ err' = peer.err
    /\ i' = peer.i
    /\ cur' = peer.cur
    /\ child' = peer.child
    /\ procs' = peer.procs
    /\ execLog' = peer.execLog
    /\ direct' = peer.direct
    /\ probe' = peer.probe
    /\ info' = peer.info
    /\ probing' = peer.probing
    /\ UNCHANGED <<agent, serviceType, goos, earlier>>

\* the generated texts of the requests that run two at a time
ConcurrentTexts ==
    { "not json at all",
      "{\"commands\":[{\"command\":\"dd\"},{\"command\":\"echo\",\"args\":[\"hello\"]}]}",
      "{\"commands\":[{\"command\":\"date\",\"timeout\":36028797018963967},{\"command\":\"ls\",\"timeout\":36028797018963970}]}" }

\* the answers of the backend to the requests that run two at a time
ConcurrentReplies ==
    { r \in Replies :
        \/ r.net = "refused"
        \/ /\ r.net = "ok"
           /\ r.status = 200
           /\ \E text \in ConcurrentTexts :
                 r.body \in { JObj([response |-> JStr(text)]),
                              JArr(<<JObj([generated_text |-> JStr(text)])>>) } }

\* the call in view is one of the requests that run two at a time
ConcurrentInputs ==
    reply # <<>> => reply[1] \in ConcurrentReplies

\* two handle calls on one agent, their steps interleaved in every order
NextConcurrent ==
    \/ ProcessUserRequest /\ ConcurrentInputs'
    \/ ProbeStarts /\ ConcurrentInputs'
    \/ ProbeStartFails /\ ConcurrentInputs'
    \/ ProbeExits /\ ConcurrentInputs'
    \/ Switch /\ ConcurrentInputs'
    \/ BackendReturns /\ ConcurrentInputs'
    \/ BackendSilent /\ ConcurrentInputs'
    \/ ClientTimesOut /\ ConcurrentInputs'
    \/ ParsePlan /\ ConcurrentInputs'
    \/ NextCommand /\ ConcurrentInputs'
    \/ Done /\ ConcurrentInputs'
    \/ Reject /\ ConcurrentInputs'
    \/ StartFails /\ ConcurrentInputs'
    \/ StartExpired /\ ConcurrentInputs'
    \/ Start /\ ConcurrentInputs'
    \/ Exits /\ ConcurrentInputs'
    \/ DeadlineExceeded /\ ConcurrentInputs'
    \/ ExitsAtDeadline /\ ConcurrentInputs'
    \/ Returned /\ ConcurrentInputs'
    \/ Swap

SpecConcurrent == Init /\ [][NextConcurrent]_vars

(***************************************************************************)
(* Properties.                                                             *)
(***************************************************************************)
\* m is a piece of the message e
Names(e, m) == \E k \in DOMAIN e : e[k] = m

\* C1: a command name outside the allow-list is never started, whatever the
\* arguments and the timeout: ExecuteCommand neither starts nor waits for a
\* process, and it returns success=false, exit code -1 and an error message
\* that names the command.
C1_NotAllowedIsRejected ==
    /\ pc \in { "entered", "running" } /\ cur.Command \notin allowedCommands
         => pc = "entered" /\ child = NoChild
    /\ \A k \in DOMAIN execLog :
         execLog[k].req.Command \notin allowedCommands
           => /\ execLog[k].how = "rejected"
              /\ execLog[k].res.Success = FALSE
              /\ execLog[k].res.ExitCode = -1
              /\ execLog[k].res.Output = ""
              /\ Names(execLog[k].res.Error, execLog[k].req.Command)
              /\ Names(execLog[k].res.Error, "' is not allowed for security reasons")

\* C1 witness: a direct call for sudo with arguments and a timeout was rejected.
C1_Witness ==
    /\ caller = "direct"
    /\ pc = "returned"
    /\ execLog[1].req = [Command |-> "sudo", Args |-> <<"-rf", "/">>, Timeout |-> Int64(2)]
    /\ direct[1].ExitCode = -1

\* C2: whatever the backend answered, a process started for a CommandRequest
\* has a command name of the allow-list: the running child, and every call
\* that started one.
C2_SpawnedIsAllowed ==
    /\ child # NoChild => child.Command \in allowedCommands
    /\ \A k \in DOMAIN execLog :
         execLog[k].how \in { "exited", "killed", "late" }
           => execLog[k].req.Command \in allowedCommands

\* C2 witness: a plan named dd and echo; dd was rejected and echo is running.
C2_Witness ==
    /\ caller = "handle"
    /\ Len(execLog) = 1
    /\ execLog[1].req.Command = "dd"
    /\ execLog[1].how = "rejected"
    /\ child # NoChild
    /\ child.Command = "echo"

\* C3 (as claimed): handling requests never starts sudo, format or dd, nor rm
\* with the arguments -rf /.
C3_NoDangerousCommand ==
    caller = "handle" /\ child # NoChild
      => /\ child.Command \notin { "sudo", "format", "dd" }
         /\ ~(child.Command = "rm" /\ child.Args = <<"-rf", "/">>)

\* C4: when the backend call fails, ProcessUserRequest returns at once: an
\* error and no response (no plan, no results), and ExecuteCommand has not
\* been called and no process is running.  A request whose HTTP exchange
\* failed in transport is in that case.
C4_BackendErrorShortCircuits ==
    /\ err # NilErr
         => /\ pc = "failed"
            /\ response = NilResponse
            /\ execLog = <<>>
            /\ child = NoChild
    /\ reply # <<>> /\ reply[1].net # "ok" => err # NilErr
    /\ pc = "failed" => err # NilErr

\* C4 witness: the connection was refused and the request has failed.
C4_Witness ==
    /\ pc = "failed"
    /\ reply # <<>>
    /\ reply[1].net = "refused"
    /\ err # NilErr

\* The payload shape the backend is asked for: an object with thoughts
\* (string), commands (array of objects with command: string and, when
\* given, args: array of strings and timeout: integer), explanation (string)
\* and confidence (number).
PlanSchemaOK(v) ==
    /\ v.t = "obj"
    /\ { "thoughts", "commands", "explanation", "confidence" } \subseteq DOMAIN v.f
    /\ v.f.thoughts.t = "str"
    /\ v.f.explanation.t = "str"
    /\ v.f.confidence.t = "num"
    /\ v.f.commands.t = "arr"
    /\ \A k \in DOMAIN v.f.commands.a :
         LET c == v.f.commands.a[k]
         IN  /\ c.t = "obj"
             /\ "command" \in DOMAIN c.f
             /\ c.f.command.t = "str"
             /\ "args" \in DOMAIN c.f
                  => c.f.args.t = "arr" /\ \A j \in DOMAIN c.f.args.a : c.f.args.a[j].t = "str"
             /\ "timeout" \in DOMAIN c.f
                  => \/ c.f.timeout.t = "num" /\ c.f.timeout.h % 100 = 0
                     \/ c.f.timeout.t = "big"

Parsed == rawText # <<>> /\ pc \in { "executing", "entered", "running", "done" }

\* C5 (as claimed): a text that is not JSON or that violates the plan schema
\* (malformed syntax, wrong field types, missing required fields) is parsed
\* without error into a plan with no commands and confidence 0.0, and no
\* command is executed.
C5_SchemaViolationDegrades ==
    Parsed /\ ~PlanSchemaOK(JsonOf(rawText[1]))
      => /\ err = NilErr
         /\ Len(response.Commands) = 0
         /\ response.Confidence = 0
         /\ execLog = <<>>
         /\ child = NoChild

\* C5 (amended): a text that is not JSON, or whose top-level value or one of
\* whose fields has the wrong JSON type, is parsed without error into a plan
\* with no commands and confidence 0.0, and no command is executed; a text
\* that only leaves fields out is parsed as a plan, and its commands run.
C5_UnparsableDegrades ==
    /\ Parsed /\ rawText[1] \in MalformedTexts
         => /\ err = NilErr
            /\ pc \in { "executing", "done" }
            /\ Len(response.Commands) = 0
            /\ response.Confidence = 0
            /\ execLog = <<>>
            /\ child = NoChild
    /\ Parsed /\ rawText[1] = "{\"commands\":[{\"command\":\"ls\"}]}"
         => /\ Len(response.Commands) = 1
            /\ response.Commands[1].Command = "ls"
            /\ pc = "done" => Len(execLog) = 1
    /\ Parsed /\ rawText[1] = "{\"confidence\":0.9}"
         => response.Confidence = 90 /\ Len(response.Commands) = 0

\* C5 witness: a plan whose timeout is not an integer was degraded, and the
\* request is over with nothing executed.
C5_Witness ==
    /\ pc = "done"
    /\ rawText = << "{\"commands\":[{\"command\":\"ls\",\"timeout\":1.5}]}" >>
    /\ response.Commands = <<>>
    /\ execLog = <<>>

\* C6 (as claimed): a text that could not be parsed is never taken for a
\* backend failure. When the backend returned a text that could not be parsed
\* (the fallback branch built the report), the request does not fail, goes on
\* to its end, returns no error, and the error field of its report is empty;
\* and an error, returned or in the report, is there only when a backend call
\* was made and failed.
C6_DegradationIsNotBackendFailure ==
    /\ rawText # <<>> /\ ParseAIResponse(rawText[1]) = Degraded(rawText[1])
         => /\ pc \in { "parsing", "executing", "done" }
            /\ err = NilErr
            /\ response # NilResponse => response.Error = ""
    /\ \/ err # NilErr
       \/ response # NilResponse /\ response.Error # ""
         => \/ reply # <<>> /\ callBackend(serviceType, reply[1]).err # NilErr
            \/ /\ reply = <<>>
               /\ ClientTimeout(serviceType) # <<>>
               /\ err = TimedOut(serviceType).err

\* the envelope carries a provider-reported error
ProviderError(b) ==
    /\ b.t = "obj"
    /\ "error" \in DOMAIN b.f
    /\ b.f.error.t = "str"
    /\ b.f.error.s # ""

\* the envelope holds no generated text for the variant st
NoGeneratedText(st, b) ==
    IF st = "huggingface"
    THEN \/ b.t # "arr"
         \/ Len(b.a) = 0
         \/ b.a[1].t # "obj"
         \/ "generated_text" \notin DOMAIN b.a[1].f
    ELSE \/ b.t # "obj"
         \/ "response" \notin DOMAIN b.f

\* C7 (as claimed): for each variant, once the call has returned, a network
\* failure, a status outside 2xx, a provider-reported error or an empty or
\* absent response has made the call fail: no plan is returned.
C7_BackendFailuresAreErrors ==
    reply # <<>>
      /\ \/ reply[1].net # "ok"
         \/ reply[1].status \notin 200..299
         \/ ProviderError(reply[1].body)
         \/ NoGeneratedText(serviceType, reply[1].body)
      => err # NilErr /\ pc = "failed" /\ response = NilResponse

\* C8: the commands of a plan are executed in plan order, one at a time and
\* each exactly once, whatever became of the earlier ones: the calls made so
\* far are the first commands of the plan, the call in progress is for the
\* next one, and a finished request has made one call per command.
C8_PlanOrderEachOnce ==
    caller = "handle" /\ response # NilResponse
      => /\ Len(execLog) <= Len(response.Commands)
         /\ \A k \in DOMAIN execLog : execLog[k].req = response.Commands[k]
         /\ pc \in { "executing", "done" } => Len(execLog) = i - 1
         /\ pc \in { "entered", "running" }
              => Len(execLog) = i - 1 /\ cur = response.Commands[i]
         /\ pc = "done" => Len(execLog) = Len(response.Commands)

\* C8 witness: a plan of three is done: the first command was killed at its
\* deadline, the second rejected, the third exited with a non-zero status.
C8_Witness ==
    /\ caller = "handle"
    /\ pc = "done"
    /\ Len(execLog) = 3
    /\ execLog[1].how = "killed"
    /\ execLog[2].how = "rejected"
    /\ execLog[3].how = "exited"
    /\ execLog[3].res.ExitCode = 1

\* C9: the report of a request that ran commands has one result per command,
\* and the result at each index is what ExecuteCommand returned for the
\* command at that index.
C9_ResultsAlignedWithCommands ==
    caller = "handle" /\ pc = "done" /\ Len(response.Commands) > 0
      => /\ Len(response.Results) = Len(response.Commands)
         /\ \A k \in DOMAIN response.Results :
              /\ execLog[k].req = response.Commands[k]
              /\ response.Results[k] = execLog[k].res

\* C9 witness: a plan of two is done, with the rejection of dd first and the
\* success of echo second.
C9_Witness ==
    /\ caller = "handle"
    /\ pc = "done"
    /\ Len(response.Commands) = 2
    /\ response.Commands[1].Command = "dd"
    /\ response.Results[1].ExitCode = -1
    /\ response.Results[2].Success

\* C10: a command still running at its deadline is killed and reported with
\* success=false; the process is gone when ExecuteCommand returns, the loop
\* goes on to the end of the plan, and every command gets the deadline of
\* its own request, whatever expired before it: a timeout of 32 bits is
\* never found expired before the start, and it is the deadline of the child.
C10_DeadlineIsPerCommand ==
    /\ \A k \in DOMAIN execLog :
         execLog[k].how = "killed"
           => execLog[k].res.Success = FALSE /\ execLog[k].res.Error # NilErr
    /\ pc # "running" => child = NoChild
    /\ caller = "handle" /\ pc = "done" => Len(execLog) = Len(response.Commands)
    /\ \A k \in DOMAIN execLog :
         execLog[k].how = "expired" => ~Fits32(execLog[k].req.Timeout)
    /\ child # NoChild /\ Fits32(cur.Timeout)
         => child.deadline
              = Mul64(Int64(IF IntOf(cur.Timeout) > 0 THEN IntOf(cur.Timeout) ELSE 30),
                      Second)

\* C10 witness: ping was killed at its deadline of 1 s and date, the next
\* command of the plan, is running under the default deadline.
C10_Witness ==
    /\ caller = "handle"
    /\ Len(execLog) = 1
    /\ execLog[1].how = "killed"
    /\ execLog[1].req.Timeout = Int64(1)
    /\ child # NoChild
    /\ child.Command = "date"
    /\ child.deadline = Mul64(Int64(30), Second)

\* C11: every allowed command runs under a deadline of exactly its request's
\* timeout in seconds when that timeout is positive, and of exactly 30 s
\* when it is absent, zero or negative: no allowed request finds its
\* deadline passed before the start, and the deadline of the child is that
\* number of seconds.
C11_DeadlineIsTimeoutOrThirty ==
    /\ \A k \in DOMAIN execLog : execLog[k].how # "expired"
    /\ child # NoChild
         => Seconds(child.deadline)
              = IF Positive(cur.Timeout) THEN cur.Timeout ELSE Int64(30)

\* C12 (as claimed): for every allowed command that was started, success is
\* true exactly when the process exited with status 0, and the exit code of
\* a process that exited is the status it reported; a result with
\* success=true has exit code 0 and no error message.
C12_SuccessIffExitZero ==
    \A k \in DOMAIN execLog :
        execLog[k].how \in { "exited", "killed", "late" }
          => /\ execLog[k].res.Success <=> execLog[k].status = <<0>>
             /\ execLog[k].status # <<>>
                  => execLog[k].res.ExitCode = execLog[k].status[1]
             /\ execLog[k].res.Success
                  => execLog[k].res.ExitCode = 0 /\ execLog[k].res.Error = NilErr

\* C13: ExecuteCommand always hands a CommandResponse to its caller: an
\* allowed command that cannot be started, that exits with a status other
\* than 0, or that is ended at its deadline gives success=false with an
\* error message and an exit code other than 0; the call can always go on to
\* its return, the loop goes on after it and ProcessUserRequest returns no
\* error for it, and a direct caller has the response in hand.
C13_FailuresAreResults ==
    /\ \A k \in DOMAIN execLog :
         \/ execLog[k].how \in { "nostart", "expired", "killed" }
         \/ execLog[k].how = "exited" /\ execLog[k].status # <<0>>
         => /\ ~execLog[k].res.Success
            /\ execLog[k].res.Error # NilErr
            /\ execLog[k].res.ExitCode # 0
    /\ pc = "entered" => ENABLED (Reject \/ StartFails \/ StartExpired \/ Start)
    /\ \A k \in DOMAIN execLog :
         execLog[k].how = "late"
           => ~execLog[k].res.Success /\ execLog[k].res.Error # NilErr
    /\ pc = "running" => ENABLED (Exits \/ DeadlineExceeded \/ ExitsAtDeadline)
    /\ caller = "handle" /\ execLog # <<>>
         => /\ err = NilErr
            /\ pc \in { "executing", "entered", "running", "done" }
            /\ pc = "executing" => Len(response.Results) = Len(execLog)
    /\ pc = "returned" => direct = <<execLog[1].res>>

\* C13 witness: ping was ended at its deadline, date after it could not be
\* started, and the request is done with both results and no error.
C13_Witness ==
    /\ caller = "handle"
    /\ pc = "done"
    /\ err = NilErr
    /\ Len(response.Results) = 2
    /\ execLog[1].how = "killed"
    /\ execLog[2].how = "nostart"
    /\ response.Results[2].Error # NilErr

\* C14: the allow-list of the agent is at every point the list NewAgent
\* built: no lookup, no ExecuteCommand call and no handled request, whatever
\* the backend text, adds, removes or changes an entry, and isCommandAllowed
\* gives for every name the answer it gave at construction.
C14_AllowListIsFixed ==
    /\ agent.allowedCommands = allowedCommands
    /\ \A name \in CommandNames : isCommandAllowed(name) <=> name \in allowedCommands

\* C14 witness: a plan that asked for dd and echo is done, dd was looked up
\* and rejected, echo was looked up and run, and dd is still not allowed.
C14_Witness ==
    /\ caller = "handle"
    /\ pc = "done"
    /\ Len(execLog) = 2
    /\ execLog[1].req.Command = "dd"
    /\ execLog[1].how = "rejected"
    /\ execLog[2].how = "exited"
    /\ ~isCommandAllowed("dd")
    /\ isCommandAllowed("echo")

\* C15: whenever parsing degrades, the plan that is returned has the
\* reasoning "Failed to parse AI response as structured output" and the raw
\* backend text, unchanged, as its explanation, for every backend variant.
C15_DegradedPlanTexts ==
    Parsed /\ rawText[1] \in MalformedTexts
      => /\ response.Thoughts = "Failed to parse AI response as structured output"
         /\ response.Explanation = rawText[1]

\* C15 (amended): whenever parsing degrades, the plan that is returned has
\* the reasoning "Failed to parse AI response as JSON" and the raw backend
\* text, unchanged, as its explanation, whichever of the three backends
\* gave the text.
C15_DegradedPlanTextsJSON ==
    Parsed /\ rawText[1] \in MalformedTexts
      => /\ serviceType \in ServiceTypes
         /\ response.Thoughts = "Failed to parse AI response as JSON"
         /\ response.Explanation = rawText[1]

\* C15 witness: the Hugging Face backend generated "not json at all" and the
\* request is done with that text as the explanation of its plan.
C15_Witness ==
    /\ serviceType = "huggingface"
    /\ pc = "done"
    /\ rawText = << "not json at all" >>
    /\ response.Thoughts = "Failed to parse AI response as JSON"
    /\ response.Explanation = "not json at all"

\* C16: confidence and reasoning never gate execution: a request that is
\* done and whose plan has the command sequence of an earlier request of the
\* session has made the same ExecuteCommand calls in the same order, each
\* with the same answer of the allow-list, whatever the confidence and the
\* reasoning of the two plans.
C16_ConfidenceNeverGates ==
    /\ caller = "handle"
    /\ pc = "done"
    /\ earlier # <<>>
    /\ earlier[1].Commands = response.Commands
    => Calls(execLog) = earlier[1].calls

\* C16 witness: two requests with the same one command, ls -la, the earlier
\* with confidence 0.95 and the later with confidence 0.1 and another
\* reasoning; the later is done and has made its one call.
C16_Witness ==
    /\ caller = "handle"
    /\ pc = "done"
    /\ earlier # <<>>
    /\ earlier[1].Commands = response.Commands
    /\ earlier[1].Confidence = 95
    /\ response.Confidence = 10
    /\ earlier[1].Thoughts # response.Thoughts
    /\ Len(execLog) = 1
    /\ execLog[1].req.Command = "ls"
    /\ execLog[1].how # "rejected"

\* C17: the send of every backend variant runs under a bounded request
\* timeout: a request whose backend never answers leaves its wait with a
\* backend error and ends as failed, whichever of the three backends it is.
C17_SilentBackendEndsInError ==
    (pc = "blocked") ~> (pc = "failed" /\ err # NilErr)

\* The steps of one request: PROMPTING is "sw_vers", "uname" and "gathered",
\* AWAITING_BACKEND is "awaiting" and "blocked", BACKEND_FAILED is "failed",
\* PARSING is "parsing", EXECUTING is "executing", "entered" and "running",
\* DONE is "done"; "idle" again is the return to the caller.
RequestSteps ==
    { <<"idle", "sw_vers">>, <<"idle", "gathered">>,
      <<"sw_vers", "sw_vers">>, <<"sw_vers", "uname">>,
      <<"uname", "uname">>, <<"uname", "gathered">>,
      <<"gathered", "awaiting">>, <<"gathered", "failed">>,
      <<"awaiting", "blocked">>, <<"awaiting", "failed">>, <<"blocked", "failed">>,
      <<"awaiting", "parsing">>, <<"parsing", "executing">>,
      <<"executing", "entered">>, <<"entered", "running">>,
      <<"entered", "executing">>, <<"running", "executing">>,
      <<"executing", "done">>, <<"done", "idle">>, <<"failed", "idle">> }

\* C18: a request is one traversal PROMPTING -> AWAITING_BACKEND ->
\* (BACKEND_FAILED | PARSING -> EXECUTING -> DONE): every step of a request
\* is a step of that machine, so the backend is asked at most once and a
\* failure is not retried; a request fails before the wait only for a
\* service type that has no backend; a command is entered only with the
\* text parsed into a plan; after BACKEND_FAILED and after DONE the request
\* only returns, with nothing more executed.
C18_OneTraversal ==
    [][ caller = "handle" \/ caller' = "handle"
          => /\ <<pc, pc'>> \in RequestSteps
             /\ pc = "gathered" /\ pc' = "failed" => serviceType \notin ServiceTypes
             /\ pc' \in { "entered", "running" }
                  => rawText' # <<>> /\ response' # NilResponse /\ pc # "awaiting"
             /\ pc' = "failed" => execLog' = <<>> /\ child' = NoChild /\ rawText' = <<>>
             /\ pc \in { "failed", "done" }
                  => pc' = "idle" /\ execLog' = <<>> /\ child' = NoChild ]_vars

\* C18 witness: a request went through the whole machine: the backend
\* answered, its text was parsed into a plan of three commands, the three
\* calls were made and the request is done.
C18_Witness ==
    /\ caller = "handle"
    /\ pc = "done"
    /\ reply # <<>>
    /\ reply[1].net = "ok"
    /\ rawText # <<>>
    /\ Len(response.Commands) = 3
    /\ Len(execLog) = 3

\* C19: while the plan of a request is executed at most one process of the
\* request is alive: only a call that is waiting for its process has one,
\* and the call for command i is entered, and its process started, only
\* with the processes of the commands before it gone and their i - 1
\* results recorded.
C19_OneChildAtATime ==
    /\ procs <= 1
    /\ probing # NoChild => procs = 0
    /\ procs = 1 <=> pc = "running"
    /\ pc = "running" <=> child # NoChild
    /\ caller = "handle" /\ pc \in { "entered", "running" }
         => /\ Len(response.Results) = i - 1
            /\ Len(execLog) = i - 1
            /\ \A k \in 1..(i - 1) : response.Results[k] = execLog[k].res

\* C19 witness: ping has exited and its result is recorded; date, the second
\* command of the plan, is running and is the one process alive.
C19_Witness ==
    /\ caller = "handle"
    /\ pc = "running"
    /\ i = 2
    /\ procs = 1
    /\ child.Command = "date"
    /\ execLog[1].req.Command = "ping"
    /\ execLog[1].how = "exited"
    /\ Len(response.Results) = 1

\* C20: ExecuteCommand is the only part of the program that starts
\* processes: while a request is handled, the system-info probe, the
\* orchestrator, the backend call and the parser start none, so that every
\* process the program starts has passed the allow-list check.
C20_OnlyExecutorSpawns ==
    /\ probe = <<>>
    /\ procs > 0 => pc = "running" /\ isCommandAllowed(child.Command)

\* C23: with a service type that is none of ollama, huggingface and local,
\* every request fails with the error "unsupported service type" and the
\* name of the type: no backend is asked, no text is obtained or parsed, no
\* ExecuteCommand call is made and no command process is started.
C23_UnsupportedServiceTypeFails ==
    caller = "handle" /\ serviceType \notin { "ollama", "huggingface", "local" }
      => /\ pc \in { "sw_vers", "uname", "gathered", "failed" }
         /\ pc = "failed" => err = <<"unsupported service type: ", serviceType>>
         /\ reply = <<>>
         /\ rawText = <<>>
         /\ response = NilResponse
         /\ execLog = <<>>
         /\ child = NoChild
         /\ procs = 0

\* C23 witness: a request to an agent built with the service type "openai"
\* has failed with that error.
C23_Witness ==
    /\ serviceType = "openai"
    /\ caller = "handle"
    /\ pc = "failed"
    /\ Names(err, "unsupported service type: ")
    /\ Names(err, "openai")

\* C22: every entry of the results of a returned report is what
\* ExecuteCommand returned in that request, in the order of the calls, so
\* that a plan with no commands gives a report with no results; and the
\* error field of the report is empty or the text the fallback sets, never
\* a text the backend supplied.
C22_ResultsComeFromExecuteCommand ==
    caller = "handle" /\ pc = "done"
      => /\ Len(response.Results) = Len(execLog)
         /\ \A k \in DOMAIN response.Results : response.Results[k] = execLog[k].res
         /\ Len(response.Commands) = 0 => response.Results = <<>>
         /\ response.Error \in { "", "Invalid JSON response from AI" }

\* what a call with the locals r holds is its own: when it has not begun or
\* has returned nothing of a call is left; the calls it made are the commands
\* of the plan in its own generated text, in order; the answer of the
\* allow-list to each is the one the list of the construction gives; the
\* generated text and the error are those of its own exchange with the
\* backend; and the report it returns is the one built from its own generated
\* text and the results of its own ExecuteCommand calls
OwnState(r) ==
    LET plan == ParseAIResponse(r.rawText[1])
        back == callBackend(serviceType, r.reply[1])
    IN  /\ r.pc = "idle" => r = IdleCall
        /\ r.caller = "handle" /\ r.execLog # <<>>
             => /\ r.rawText # <<>>
                /\ Len(r.execLog) <= Len(plan.Commands)
                /\ \A k \in DOMAIN r.execLog : r.execLog[k].req = plan.Commands[k]
        /\ \A k \in DOMAIN r.execLog :
              /\ r.execLog[k].how = "rejected"
                   <=> r.execLog[k].req.Command \notin allowedCommands
              /\ r.execLog[k].how = "rejected"
                   => r.execLog[k].res = NotAllowed(r.execLog[k].req)
        /\ r.reply # <<>> => r.rawText = back.text /\ r.err = back.err
        /\ r.caller = "handle" /\ r.pc = "done"
             => r.response =
                  IF Len(plan.Commands) > 0
                  THEN [plan EXCEPT !.Results = [k \in DOMAIN r.execLog |-> r.execLog[k].res]]
                  ELSE plan
        /\ r.caller = "direct" /\ r.pc = "returned"
             => r.direct = <<r.execLog[1].res>>

\* C21: no mutable state is carried across or shared between requests, with
\* two handle calls on the same agent interleaved step by step in every
\* order, each also followed by later requests. No step of either call
\* writes the agent, its service type or anything else the two have in
\* common; a step of one call leaves every local of the other call as it
\* was (the only change of the other call's locals is the scheduler putting
\* it in view, which changes none of them); and in every state each of the
\* two calls holds only what is its own (OwnState): its report depends on its
\* own generated text and on the outcomes of its own commands, whatever the
\* other call is doing.
C21_RequestsShareNoState ==
    /\ [](OwnState(View) /\ OwnState(peer))
    /\ [][ /\ <<agent, serviceType, goos>>' = <<agent, serviceType, goos>>
           /\ \/ peer' = peer
              \/ peer' = View /\ View' = peer ]_vars

\* C21 witness: two requests are in progress at once on one agent with
\* different generated texts. The one in view is done: its dd was rejected,
\* its echo ran, and its report holds the results of these two calls; the
\* other has had its date call answered and is waiting for the process of
\* its own ls.
C21_Witness ==
    /\ caller = "handle"
    /\ pc = "done"
    /\ Len(execLog) = 2
    /\ execLog[1].req.Command = "dd"
    /\ execLog[1].how = "rejected"
    /\ execLog[2].req.Command = "echo"
    /\ execLog[2].how = "exited"
    /\ execLog[2].res.Output = "hello\n"
    /\ response.Results = <<execLog[1].res, execLog[2].res>>
    /\ peer.caller = "handle"
    /\ peer.pc = "running"
    /\ peer.rawText # rawText
    /\ Len(peer.execLog) = 1
    /\ peer.execLog[1].req.Command = "date"
    /\ peer.child.Command = "ls"
    /\ peer.procs = 1

====
